---- MODULE Spec2Model ----
(***************************************************************************)
(* Model of umami/calculations/metric/chi_intercept_gradient.py:           *)
(* the validator _validate_chi_finder and the two metric functions         *)
(* chi_intercept and chi_gradient, run as interleaved calls on handles     *)
(* owned by an external collaborator, plus the Metric aggregator that      *)
(* evaluates registered metric functions in declaration order.             *)
(***************************************************************************)
EXTENDS Integers, Sequences, FiniteSets, TLC

\* Number of metric-function calls (threads of control) in the model.
NumCalls == 2

\* Cap on the regression invocations the aggregator may cause on its handle.
MaxFits == 4

Calls == 1..NumCalls

\* The objects a caller may pass: two ChiFinder instances, None, a raw
\* array, and an unrelated object that exposes the regression method.
Objects == {"cf1", "cf2", "none", "arr", "duck"}

ClassOf(o) ==
  CASE o \in {"cf1", "cf2"} -> "ChiFinder"
    [] o = "none" -> "NoneType"
    [] o = "arr" -> "ndarray"
    [] OTHER -> "Duck"

ChiFinders == {o \in Objects : ClassOf(o) = "ChiFinder"}

Functions == {"chi_intercept", "chi_gradient"}

\* The chi-elevation fields a handle may hold, as (chi, z) samples.
Fields == {"line", "scatter", "flat"}

FieldSamples(fid) ==
  CASE fid = "line" -> << <<0, 1>>, <<1, 3>>, <<2, 5>> >>
    [] fid = "scatter" -> << <<0, 0>>, <<1, 1>>, <<2, 5>> >>
    [] OTHER -> << <<1, 2>>, <<1, 4>> >>

\* ---- exact rational arithmetic for the fit results ----

Abs(n) == IF n < 0 THEN -n ELSE n

RECURSIVE Gcd(_, _)
Gcd(a, b) == IF b = 0 THEN a ELSE Gcd(b, a % b)

\* The rational n/d in lowest terms with a positive denominator (d # 0).
Rat(n, d) ==
  LET g == Gcd(Abs(n), Abs(d))
      s == IF d < 0 THEN -1 ELSE 1
  IN << (s * n) \div g, (s * d) \div g >>

RECURSIVE SumOver(_, _, _)
SumOver(samples, i, kind) ==
  IF i > Len(samples) THEN 0
  ELSE LET x == samples[i][1]
           y == samples[i][2]
           t == CASE kind = "x" -> x
                  [] kind = "y" -> y
                  [] kind = "xy" -> x * y
                  [] OTHER -> x * x
       IN t + SumOver(samples, i + 1, kind)

NoValue == << >>
NaN == <<0, 0>>

\* Ordinary least squares through the samples: (slope, intercept), or a
\* failure when the x-samples are not at least two distinct values.
PolyFit(samples) ==
  LET n == Len(samples)
      Sx == SumOver(samples, 1, "x")
      Sy == SumOver(samples, 1, "y")
      Sxy == SumOver(samples, 1, "xy")
      Sxx == SumOver(samples, 1, "xx")
      D == n * Sxx - Sx * Sx
      A == n * Sxy - Sx * Sy
  IN IF n = 0 \/ D = 0
       THEN [ok |-> FALSE, err |-> "RegressionFailure", slp |-> NoValue, incp |-> NoValue]
       ELSE [ok |-> TRUE, err |-> "", slp |-> Rat(A, D),
             incp |-> Rat(Sy * D - A * Sx, n * D)]

HasRegression(cl) == cl \in {"ChiFinder", "Duck"}

\* chi_finder.best_fit_chi_elevation_gradient_and_intercept() on an object
\* of class cl holding field fid.
best_fit_chi_elevation_gradient_and_intercept(cl, fid) ==
  IF ~HasRegression(cl)
    THEN [ok |-> FALSE, err |-> "AttributeError", slp |-> NoValue, incp |-> NoValue]
    ELSE PolyFit(FieldSamples(fid))

\* ---- the validator ----

isinstance_ChiFinder(cl) == cl = "ChiFinder"

validate_duck_typed(cl) == IF ~HasRegression(cl) THEN "ValueError" ELSE "ok"

\* _validate_chi_finder: "ok", or the error it raises.
validate_chi_finder(cl) == IF ~isinstance_ChiFinder(cl) THEN "ValueError" ELSE "ok"

\* ---- the value each function returns from the unpacked pair ----

ReturnValueSwapped(f, s, i) == IF f = "chi_intercept" THEN s ELSE i

ReturnValue(f, s, i) == IF f = "chi_intercept" THEN i ELSE s

Raise(e) == [kind |-> "raise", err |-> e, val |-> NoValue]
Return(v) == [kind |-> "return", err |-> "", val |-> v]
Pending == [kind |-> "none", err |-> "", val |-> NoValue]

\* A whole call run on its own, start to end, on a handle of class cl
\* holding field fid.
MetricFunction(f, cl, fid) ==
  IF validate_chi_finder(cl) # "ok" THEN Raise(validate_chi_finder(cl))
  ELSE LET r == best_fit_chi_elevation_gradient_and_intercept(cl, fid)
       IN IF ~r.ok THEN Raise(r.err)
          ELSE Return(ReturnValue(f, r.slp, r.incp))

chi_intercept(cl, fid) == MetricFunction("chi_intercept", cl, fid)

chi_gradient(cl, fid) == MetricFunction("chi_gradient", cl, fid)

VARIABLES
  field,     \* field[o]: the chi field handle o holds
  ext,       \* ext[o]: the chi field the owner last computed on handle o
  regCount,  \* regCount[o]: invocations of o's regression routine so far
  pc,        \* pc[c]: "idle", "L64", "L65", "L66" (source lines) or "done"
  func,      \* func[c]: the metric function call c runs
  arg,       \* arg[c]: the object passed to call c
  seen,      \* seen[c]: the field the owner had computed when c was called
  slp,       \* slp[c], incp[c]: the locals unpacked from the regression
  incp,
  nfit,      \* nfit[c]: regression invocations made by call c
  outcome,   \* outcome[c]: what call c returned or raised
  names,     \* the aggregator's metric names, in order
  funcs,     \* the aggregator's function per name
  log,       \* the names in the order they were registered
  values,    \* the aggregator's calculated values
  mstate     \* "calculated" / "failed": how calculate_metrics ended since
             \* the last registration; "new": it has not run since

callVars == <<pc, func, arg, seen, slp, incp, nfit, outcome>>
metricVars == <<names, funcs, log, values, mstate>>
vars == <<field, ext, regCount, pc, func, arg, seen, slp, incp, nfit, outcome,
          names, funcs, log, values, mstate>>

MetricNames == {"ci", "cg"}

Init ==
  /\ field \in [Objects -> Fields]
  /\ \A o \in Objects \ ChiFinders : field[o] = "line"
  /\ ext = field
  /\ regCount = [o \in Objects |-> 0]
  /\ pc = [c \in Calls |-> "idle"]
  /\ func = [c \in Calls |-> "chi_intercept"]
  /\ arg = [c \in Calls |-> "none"]
  /\ seen = [c \in Calls |-> "line"]
  /\ slp = [c \in Calls |-> NoValue]
  /\ incp = [c \in Calls |-> NoValue]
  /\ nfit = [c \in Calls |-> 0]
  /\ outcome = [c \in Calls |-> Pending]
  /\ names = << >>
  /\ funcs = [n \in MetricNames |-> ""]
  /\ log = << >>
  /\ values = << >>
  /\ mstate = "new"

Active(c) == pc[c] \in {"L64", "L65", "L66"}

\* The owner recomputes the chi field of a handle (cf.calculate_chi()),
\* never while a metric function is running on it.
Recalculate(o, fid) ==
  /\ ClassOf(o) = "ChiFinder"
  /\ \A c \in Calls : Active(c) => arg[c] # o
  /\ fid # field[o]
  /\ field' = [field EXCEPT ![o] = fid]
  /\ ext' = [ext EXCEPT ![o] = fid]
  /\ UNCHANGED <<regCount, callVars, metricVars>>

\* A caller invokes metric function f on object o.
Invoke(c, f, o) ==
  /\ pc[c] = "idle"
  /\ pc' = [pc EXCEPT ![c] = "L64"]
  /\ func' = [func EXCEPT ![c] = f]
  /\ arg' = [arg EXCEPT ![c] = o]
  /\ seen' = [seen EXCEPT ![c] = ext[o]]
  /\ UNCHANGED <<field, ext, regCount, slp, incp, nfit, outcome, metricVars>>

ValidateAndPrepare(c) ==
  /\ pc[c] = "L64"
  /\ IF validate_chi_finder(ClassOf(arg[c])) = "ok"
       THEN /\ pc' = [pc EXCEPT ![c] = "L65"]
            /\ field' = [field EXCEPT ![arg[c]] = "line"]
            /\ UNCHANGED outcome
       ELSE /\ pc' = [pc EXCEPT ![c] = "done"]
            /\ outcome' = [outcome EXCEPT ![c] = Raise(validate_chi_finder(ClassOf(arg[c])))]
            /\ UNCHANGED field
  /\ UNCHANGED <<ext, regCount, func, arg, seen, slp, incp, nfit, metricVars>>

\* Line 64 / 121: _validate_chi_finder(chi_finder).
Validate(c) ==
  /\ pc[c] = "L64"
  /\ IF validate_chi_finder(ClassOf(arg[c])) = "ok"
       THEN /\ pc' = [pc EXCEPT ![c] = "L65"]
            /\ UNCHANGED outcome
       ELSE /\ pc' = [pc EXCEPT ![c] = "done"]
            /\ outcome' = [outcome EXCEPT ![c] = Raise(validate_chi_finder(ClassOf(arg[c])))]
  /\ UNCHANGED <<field, ext, regCount, func, arg, seen, slp, incp, nfit, metricVars>>

\* What invoking the regression of object o does to the invocation count.
Invoked(o, k) ==
  IF HasRegression(ClassOf(o)) THEN [regCount EXCEPT ![o] = @ + k] ELSE regCount

FitStore(c, r) ==
  IF r.ok
    THEN /\ slp' = [slp EXCEPT ![c] = r.slp]
         /\ incp' = [incp EXCEPT ![c] = r.incp]
         /\ pc' = [pc EXCEPT ![c] = "L66"]
         /\ UNCHANGED outcome
    ELSE /\ pc' = [pc EXCEPT ![c] = "done"]
         /\ outcome' = [outcome EXCEPT ![c] = Raise(r.err)]
         /\ UNCHANGED <<slp, incp>>

\* A regression failure is retried once before it is raised.
FitRetry(c) ==
  /\ pc[c] = "L65"
  /\ LET r == best_fit_chi_elevation_gradient_and_intercept(ClassOf(arg[c]), field[arg[c]])
         k == IF r.ok THEN 1 ELSE 2
     IN /\ regCount' = Invoked(arg[c], k)
        /\ nfit' = [nfit EXCEPT ![c] = @ + k]
        /\ FitStore(c, r)
  /\ UNCHANGED <<field, ext, func, arg, seen, metricVars>>

\* A regression failure is swallowed and NaN is used for both outputs.
FitSwallow(c) ==
  /\ pc[c] = "L65"
  /\ LET r == best_fit_chi_elevation_gradient_and_intercept(ClassOf(arg[c]), field[arg[c]])
     IN /\ regCount' = Invoked(arg[c], 1)
        /\ nfit' = [nfit EXCEPT ![c] = @ + 1]
        /\ FitStore(c, IF r.ok THEN r
                       ELSE [ok |-> TRUE, err |-> "", slp |-> NaN, incp |-> NaN])
  /\ UNCHANGED <<field, ext, func, arg, seen, metricVars>>

\* The pair of an earlier call on the same handle is reused when there is one.
FitCached(c) ==
  /\ pc[c] = "L65"
  /\ IF \E d \in Calls : d # c /\ arg[d] = arg[c] /\ slp[d] # NoValue
       THEN \E d \in Calls :
              /\ d # c /\ arg[d] = arg[c] /\ slp[d] # NoValue
              /\ slp' = [slp EXCEPT ![c] = slp[d]]
              /\ incp' = [incp EXCEPT ![c] = incp[d]]
              /\ pc' = [pc EXCEPT ![c] = "L66"]
              /\ UNCHANGED <<regCount, nfit, outcome>>
       ELSE LET r == best_fit_chi_elevation_gradient_and_intercept(ClassOf(arg[c]), field[arg[c]])
            IN /\ regCount' = Invoked(arg[c], 1)
               /\ nfit' = [nfit EXCEPT ![c] = @ + 1]
               /\ FitStore(c, r)
  /\ UNCHANGED <<field, ext, func, arg, seen, metricVars>>

\* The regression leaves the handle holding another field.
FitMutating(c) ==
  /\ pc[c] = "L65"
  /\ LET r == best_fit_chi_elevation_gradient_and_intercept(ClassOf(arg[c]), field[arg[c]])
     IN /\ regCount' = Invoked(arg[c], 1)
        /\ nfit' = [nfit EXCEPT ![c] = @ + 1]
        /\ FitStore(c, r)
  /\ field' = [field EXCEPT ![arg[c]] = IF @ = "line" THEN "scatter" ELSE "line"]
  /\ UNCHANGED <<ext, func, arg, seen, metricVars>>

\* Line 65 / 122: slp, incp = chi_finder.best_fit_chi_elevation_gradient_and_intercept().
Fit(c) ==
  /\ pc[c] = "L65"
  /\ LET r == best_fit_chi_elevation_gradient_and_intercept(ClassOf(arg[c]), field[arg[c]])
     IN /\ regCount' = Invoked(arg[c], 1)
        /\ nfit' = [nfit EXCEPT ![c] = @ + 1]
        /\ FitStore(c, r)
  /\ UNCHANGED <<field, ext, func, arg, seen, metricVars>>

\* slp and incp are shared between the calls instead of local to each.
ReturnSharedLocals(c) ==
  /\ pc[c] = "L66"
  /\ \E d \in Calls :
       /\ slp[d] # NoValue
       /\ outcome' = [outcome EXCEPT ![c] = Return(ReturnValue(func[c], slp[d], incp[d]))]
  /\ pc' = [pc EXCEPT ![c] = "done"]
  /\ UNCHANGED <<field, ext, regCount, func, arg, seen, slp, incp, nfit, metricVars>>

\* Line 66: return incp / line 123: return slp.
ReturnStep(c) ==
  /\ pc[c] = "L66"
  /\ outcome' = [outcome EXCEPT ![c] = Return(ReturnValue(func[c], slp[c], incp[c]))]
  /\ pc' = [pc EXCEPT ![c] = "done"]
  /\ UNCHANGED <<field, ext, regCount, func, arg, seen, slp, incp, nfit, metricVars>>

Next ==
  \/ \E o \in Objects, fid \in Fields : Recalculate(o, fid)
  \/ \E c \in Calls, f \in Functions, o \in Objects : Invoke(c, f, o)
  \/ \E c \in Calls : Validate(c)
  \/ \E c \in Calls : Fit(c)
  \/ \E c \in Calls : ReturnStep(c)

Spec == Init /\ [][Next]_vars

\* ---- the Metric aggregator ----

\* The position at which a name is kept when the names are held sorted.
RECURSIVE SortedInsert(_, _)
SortedInsert(seq, n) ==
  IF seq = << >> THEN <<n>>
  ELSE IF n = "cg" THEN <<n>> \o seq
  ELSE <<Head(seq)>> \o SortedInsert(Tail(seq), n)

AddedNamesSorted(seq, n) == SortedInsert(seq, n)

\* The name list after registering n: insertion order.
AddedNames(seq, n) == Append(seq, n)

\* Registering function f under name n in the declarative specification.
AddMetric(n, f) ==
  /\ n \notin {names[i] : i \in 1..Len(names)}
  /\ names' = AddedNames(names, n)
  /\ funcs' = [funcs EXCEPT ![n] = f]
  /\ log' = Append(log, n)
  /\ mstate' = "new"
  /\ UNCHANGED <<field, ext, regCount, callVars, values>>

\* Result of the function registered under the i-th name on the
\* aggregator's own handle holding field fid.
Evaluate(i, fid) ==
  IF funcs[names[i]] = "chi_intercept" THEN chi_intercept("ChiFinder", fid)
  ELSE chi_gradient("ChiFinder", fid)

\* The values collected by evaluating the names in the order given.
Collected(fid) == [i \in 1..Len(names) |-> Evaluate(i, fid).val]

\* Metric.calculate_metrics(): the chi field of the aggregator's handle is
\* computed, then every registered function is evaluated in declared order;
\* the first failure ends the calculation.
CalculateMetrics(fid) ==
  /\ names # << >>
  /\ regCount["cf1"] + Len(names) <= MaxFits
  /\ field' = [field EXCEPT !["cf1"] = fid]
  /\ ext' = [ext EXCEPT !["cf1"] = fid]
  /\ IF \E i \in 1..Len(names) : Evaluate(i, fid).kind = "raise"
       THEN /\ mstate' = "failed"
            /\ UNCHANGED values
            /\ regCount' = [regCount EXCEPT !["cf1"] = @ + 1]
       ELSE /\ mstate' = "calculated"
            /\ values' = Collected(fid)
            /\ regCount' = [regCount EXCEPT !["cf1"] = @ + Len(names)]
  /\ UNCHANGED <<callVars, names, funcs, log>>

NextMetric ==
  \/ \E n \in MetricNames, f \in Functions : AddMetric(n, f)
  \/ \E fid \in Fields : CalculateMetrics(fid)

SpecMetric == Init /\ [][NextMetric]_vars

\* ---- properties ----

Done(c) == pc[c] = "done"

ValidHandle(c) == pc[c] # "idle" /\ ClassOf(arg[c]) = "ChiFinder"

InvalidHandle(c) == pc[c] # "idle" /\ ClassOf(arg[c]) # "ChiFinder"

\* The least-squares fit of the field the handle of call c held when called.
FitSeen(c) == PolyFit(FieldSamples(seen[c]))

IsScalar(v) == Len(v) = 2 /\ v[2] > 0

\* C1 (type gating): a call of either function on an object that is not a
\* ChiFinder (None, a raw array, an object that merely exposes the
\* regression method) ends by raising the validator's error, never passes
\* line 64, and the regression of such an object is never invoked.
C1_TypeGating ==
  /\ \A c \in Calls :
       InvalidHandle(c) =>
         /\ pc[c] \in {"L64", "done"}
         /\ Done(c) => outcome[c] = [kind |-> "raise", err |-> "ValueError", val |-> NoValue]
         /\ nfit[c] = 0
  /\ \A o \in Objects \ ChiFinders : regCount[o] = 0

C1_Witness ==
  \E c, d \in Calls :
    /\ Done(c) /\ arg[c] = "duck" /\ func[c] = "chi_intercept"
    /\ outcome[c].err = "ValueError"
    /\ Done(d) /\ arg[d] \in {"none", "arr"} /\ func[d] = "chi_gradient"
    /\ outcome[d].err = "ValueError"

\* C2 (projection consistency): when the regression of a valid handle
\* yields (slope, intercept), chi_gradient returns the slope and
\* chi_intercept returns the intercept of that pair.
C2_Projection ==
  \A c \in Calls :
    (Done(c) /\ ValidHandle(c) /\ FitSeen(c).ok) =>
      /\ outcome[c].kind = "return"
      /\ func[c] = "chi_gradient" => outcome[c].val = FitSeen(c).slp
      /\ func[c] = "chi_intercept" => outcome[c].val = FitSeen(c).incp

C2_Witness ==
  \E c, d \in Calls :
    /\ Done(c) /\ Done(d) /\ arg[c] = arg[d] /\ seen[c] = "scatter" /\ seen[d] = "scatter"
    /\ func[c] = "chi_gradient" /\ outcome[c].val = <<5, 2>>
    /\ func[d] = "chi_intercept" /\ outcome[d].val = <<-1, 2>>

\* C3 (failure pass-through): when the regression of a valid handle fails,
\* the call ends raising that same failure, returns no value, and has
\* invoked the regression exactly once.
C3_FailurePassThrough ==
  \A c \in Calls :
    (Done(c) /\ ValidHandle(c) /\ ~FitSeen(c).ok) =>
      /\ outcome[c] = [kind |-> "raise", err |-> FitSeen(c).err, val |-> NoValue]
      /\ nfit[c] = 1

C3_Witness ==
  \E c, d \in Calls :
    /\ Done(c) /\ ValidHandle(c) /\ seen[c] = "flat" /\ func[c] = "chi_intercept"
    /\ outcome[c].err = "RegressionFailure"
    /\ Done(d) /\ ValidHandle(d) /\ seen[d] = "flat" /\ func[d] = "chi_gradient"
    /\ outcome[d].err = "RegressionFailure"

\* C4 (determinism): two completed calls of the same function on handles
\* of the same class that the owner left holding the same field end in the
\* same outcome (the same scalar or the same error).
C4_Determinism ==
  \A c, d \in Calls :
    (/\ Done(c) /\ Done(d)
     /\ func[c] = func[d]
     /\ ClassOf(arg[c]) = ClassOf(arg[d])
     /\ seen[c] = seen[d]) => outcome[c] = outcome[d]

C4_Witness ==
  \E c, d \in Calls :
    /\ c # d /\ Done(c) /\ Done(d)
    /\ arg[c] = arg[d] /\ ValidHandle(c)
    /\ func[c] = func[d] /\ seen[c] = seen[d]
    /\ outcome[c].kind = "return"
    /\ regCount[arg[c]] = 2

\* C7 (no caching): a call has invoked no regression before line 65 has
\* run, and exactly one once it has; the regression of each handle has
\* been invoked once per call that has passed line 65 on it.
C7_NoCaching ==
  /\ \A c \in Calls :
       /\ pc[c] \in {"idle", "L64", "L65"} => nfit[c] = 0
       /\ (ValidHandle(c) /\ pc[c] \in {"L66", "done"}) => nfit[c] = 1
  /\ \A o \in ChiFinders :
       regCount[o] = Cardinality({c \in Calls : arg[c] = o /\ pc[c] \in {"L66", "done"}})

C7_Witness ==
  \E c, d \in Calls :
    /\ c # d /\ Done(c) /\ Done(d) /\ arg[c] = arg[d] /\ ValidHandle(c)
    /\ func[c] = func[d]
    /\ nfit[c] = 1 /\ nfit[d] = 1 /\ regCount[arg[c]] = 2

\* A step taken by a running call.
CoreStep == \E c \in Calls : pc[c] \in {"L64", "L65", "L66"} /\ pc'[c] # pc[c]

\* C8 (frame): no step of the validator or of a metric function, passing
\* or raising, changes the field any handle holds.
C8_Frame == [][CoreStep => field' = field]_vars

C8_Witness ==
  \E c, d \in Calls :
    /\ Done(c) /\ ValidHandle(c) /\ outcome[c].kind = "return"
    /\ field[arg[c]] = seen[c] /\ seen[c] = "scatter"
    /\ Done(d) /\ outcome[d].kind = "raise"

\* No other call has been made on the handle of call c.
Independent(c) == \A d \in Calls : d # c => (pc[d] = "idle" \/ arg[d] # arg[c])

\* C9 (independent handles): under every interleaving, a call whose handle
\* no other call touches unpacks and ends in what the same function gives
\* when run alone on that handle, and the regression of its handle has
\* been invoked by that call only.
C9_Independent ==
  \A c \in Calls :
    (pc[c] # "idle" /\ Independent(c)) =>
      /\ Done(c) => outcome[c] = MetricFunction(func[c], ClassOf(arg[c]), seen[c])
      /\ pc[c] = "L66" => (slp[c] = FitSeen(c).slp /\ incp[c] = FitSeen(c).incp)
      /\ regCount[arg[c]] = nfit[c]
      /\ field[arg[c]] = ext[arg[c]]

C9_Witness ==
  \E c, d \in Calls :
    /\ Done(c) /\ arg[c] = "cf1" /\ seen[c] = "line" /\ outcome[c].val = <<1, 1>>
    /\ pc[d] = "L66" /\ arg[d] = "cf2" /\ seen[d] = "scatter" /\ slp[d] = <<5, 2>>

\* C10 (no partial results): a completed call either returned one scalar,
\* and then validation and the regression both succeeded, or raised and
\* returned nothing; a call that has not completed has produced nothing.
C10_NoPartial ==
  \A c \in Calls :
    /\ ~Done(c) => outcome[c] = Pending
    /\ Done(c) =>
         \/ /\ outcome[c].kind = "return"
            /\ outcome[c].err = ""
            /\ IsScalar(outcome[c].val)
            /\ ValidHandle(c) /\ FitSeen(c).ok
         \/ /\ outcome[c].kind = "raise"
            /\ outcome[c].val = NoValue
            /\ outcome[c].err \in {"ValueError", "RegressionFailure"}
            /\ InvalidHandle(c) \/ ~FitSeen(c).ok

C10_Witness ==
  \E c, d \in Calls :
    /\ Done(c) /\ outcome[c].kind = "return" /\ IsScalar(outcome[c].val)
    /\ Done(d) /\ outcome[d].kind = "raise" /\ ValidHandle(d)

\* C6 (registry ordering): the aggregator's names are the registered names
\* in registration order; with chi_intercept registered as "ci" and then
\* chi_gradient as "cg" the names are <<"ci", "cg">>, and once calculated
\* the values are the intercept then the slope: each value is the result
\* of the function registered under the name at its position.
C6_RegistryOrdering ==
  /\ names = log
  /\ (log = <<"ci", "cg">> /\ funcs["ci"] = "chi_intercept" /\ funcs["cg"] = "chi_gradient") =>
       /\ names = <<"ci", "cg">>
       /\ mstate = "calculated" =>
            values = << PolyFit(FieldSamples(field["cf1"])).incp,
                        PolyFit(FieldSamples(field["cf1"])).slp >>
  /\ mstate = "calculated" =>
       /\ Len(values) = Len(names)
       /\ \A i \in 1..Len(names) :
            values[i] = MetricFunction(funcs[names[i]], "ChiFinder", field["cf1"]).val

C6_Witness ==
  /\ log = <<"ci", "cg">>
  /\ funcs["ci"] = "chi_intercept" /\ funcs["cg"] = "chi_gradient"
  /\ mstate = "calculated"
  /\ values = << <<-1, 2>>, <<5, 2>> >>

====
